---- MODULE Spec2Model ----
(***************************************************************************)
(* Model of weather.py, the WS980 weather station logger: one run of the  *)
(* script requests the current values from the station over TCP, checks   *)
(* the checksum, formats the values and sends them to the carbon receiver *)
(* of graphite.  When the station cannot be reached the script broadcasts *)
(* a discovery command and rewrites its own source file with the address  *)
(* the station answered from.  A timer thread calls sys.exit after ten    *)
(* seconds; the task scheduler of the NAS starts the script again.        *)
(***************************************************************************)
EXTENDS Integers, Sequences, FiniteSets, TLC

\* ------------------------------------------------------------------------
\* Bounds of the model
\* ------------------------------------------------------------------------

\* How many times the task scheduler starts the script.
MaxRuns == 3

\* ------------------------------------------------------------------------
\* Program constants
\* ------------------------------------------------------------------------

MAX_RETRIES == 10

\* Length of a complete frame: bytes 0..80 and the checksum at offset 81.
CrcIndex == 81

\* ------------------------------------------------------------------------
\* Text: a str is a sequence of characters.  The stretches of the source
\* file that hold no address (no digits-and-dots text) are one token each.
\* ------------------------------------------------------------------------

Net == <<"1", "9", "2", ".", "1", "6", "8", ".", "8", ".">>

IP42  == Net \o <<"4", "2">>
IP55  == Net \o <<"5", "5">>
IP255 == Net \o <<"2", "5", "5">>
IP77  == Net \o <<"7", "7">>
IP4   == Net \o <<"4">>

GRAPHITE_HOST_INIT == IP42
WEATHER_HOST_INIT  == IP55
BROADCAST_ADDR     == IP255

\* str.find: the least 1-based index at which sub occurs in s, 0 if none.
PyFind(s, sub) ==
    LET hits == {i \in 1..(Len(s) - Len(sub) + 1) :
                    SubSeq(s, i, i + Len(sub) - 1) = sub}
    IN  IF hits = {} THEN 0 ELSE CHOOSE i \in hits : \A j \in hits : i <= j

\* str.replace(old, new, 1): the first occurrence of old replaced by new.
PyReplaceFirst(s, old, new) ==
    LET i == PyFind(s, old)
    IN  IF i = 0 THEN s
        ELSE SubSeq(s, 1, i - 1) \o new \o SubSeq(s, i + Len(old), Len(s))

\* The source file weather.py as text: the three address literals in the
\* order of their lines, with the text between them.
SourceFile(graphite, weather) ==
    <<"GRAPHITE_HOST='">> \o graphite \o <<"'", "WEATHER_HOST='">> \o weather
        \o <<"'", "sendto('">> \o BROADCAST_ADDR \o <<"'">>

\* The string literal assigned on the line that starts with marker: what
\* the interpreter binds to the name when the script is started.
ModuleLiteral(file, marker) ==
    LET a == PyFind(file, <<marker>>) + 1
        rest == SubSeq(file, a, Len(file))
        b == PyFind(rest, <<"'">>)
    IN  SubSeq(rest, 1, b - 1)

\* ------------------------------------------------------------------------
\* Bytes received from the station: the int 0 or a bytes object.
\* ------------------------------------------------------------------------

PyInt0 == [kind |-> "int", bytes |-> <<>>]
PyBytes(s) == [kind |-> "bytes", bytes |-> s]

\* data[i] with the source's 0-based index.
At(s, i) == s[i + 1]

\* data[a:b] with the source's 0-based, clipped slice.
PySlice(s, a, b) ==
    LET hi == IF b < Len(s) THEN b ELSE Len(s)
    IN  IF a >= hi THEN <<>> ELSE SubSeq(s, a + 1, hi)

RECURSIVE SumBytes(_)
SumBytes(s) == IF s = <<>> THEN 0 ELSE Head(s) + SumBytes(Tail(s))

\* A check_crc that sums one byte too few.
check_crc_short(data) ==
    IF data # PyInt0
    THEN IF Len(data.bytes) <= CrcIndex THEN "IndexError"
         ELSE IF At(data.bytes, CrcIndex) = SumBytes(PySlice(data.bytes, 2, 80)) % 256
              THEN "True" ELSE "False"
    ELSE "False"

\* check_crc: "True", "False", or "IndexError" when data[81] does not exist.
check_crc(data) ==
    IF data # PyInt0
    THEN LET crc == SumBytes(PySlice(data.bytes, 2, 81))
         IN  IF Len(data.bytes) <= CrcIndex THEN "IndexError"
             ELSE IF At(data.bytes, CrcIndex) = crc % 256
                  THEN "True" ELSE "False"
    ELSE "False"

\* ------------------------------------------------------------------------
\* Frames on the wire.  The station sends 82 bytes: a two byte header, the
\* values at offsets 2..80 and their 8-bit sum at offset 81.
\* ------------------------------------------------------------------------

FillBytes == {0, 255}
VarPos    == {1, 2, 7, 8, 22, 41, 44, 80}
VarVals   == {7, 128, 255}

\* 81 bytes, all fill except val at 0-based offset pos.
FrameBody(fill, pos, val) ==
    [i \in 1..CrcIndex |-> IF i - 1 = pos THEN val ELSE fill]

\* The frame the station builds: the body and its checksum.
StationFrame(fill, pos, val) ==
    LET body == FrameBody(fill, pos, val)
    IN  Append(body, SumBytes(SubSeq(body, 3, CrcIndex)) % 256)

StationFrames ==
    {StationFrame(fill, pos, val) : fill \in FillBytes, pos \in VarPos, val \in VarVals}

\* Byte b with bit k inverted.
FlipBit(b, k) == IF (b \div (2 ^ k)) % 2 = 1 THEN b - 2 ^ k ELSE b + 2 ^ k

\* Frame f with bit k of the byte at 0-based offset i inverted.
FlipFrameBit(f, i, k) == [f EXCEPT ![i + 1] = FlipBit(f[i + 1], k)]

Bits == 0..7

\* Frames with one bit of the checksum byte inverted on the way.
CrcFlippedFrames == {FlipFrameBit(f, CrcIndex, k) : f \in StationFrames, k \in Bits}

\* Frames with one bit of the last value byte inverted on the way.
BodyFlippedFrames == {FlipFrameBit(f, 80, 0) : f \in StationFrames}

\* What recv(1024) returns when the peer closes early: a prefix of a frame.
TruncLens == {0, 1, 81}
TruncatedFrames == {SubSeq(f, 1, n) : f \in StationFrames, n \in TruncLens}

\* A frame followed by one more byte.
ExtendedFrames == {Append(f, 0) : f \in StationFrames}

RecvFrames ==
    StationFrames \cup CrcFlippedFrames \cup BodyFlippedFrames
        \cup TruncatedFrames \cup ExtendedFrames

\* ------------------------------------------------------------------------
\* Decoding
\* ------------------------------------------------------------------------

GRAPHITE_METRIC == "wetter."

\* The table with licht.uvWert read four bytes wide: it runs into licht.uvIndex
\* and its format no longer fits its length.
VALUES_uvWertWide == <<
    [name |-> "temperatur.innen",      start |-> 7,  length |-> 2, div |-> 10, format |-> ">h"],
    [name |-> "temperatur.aussen",     start |-> 10, length |-> 2, div |-> 10, format |-> ">h"],
    [name |-> "temperatur.taupunkt",   start |-> 13, length |-> 2, div |-> 10, format |-> ">h"],
    [name |-> "temperatur.gefuehlt",   start |-> 16, length |-> 2, div |-> 10, format |-> ">h"],
    [name |-> "temperatur.hitzeIndex", start |-> 19, length |-> 2, div |-> 10, format |-> ">h"],
    [name |-> "feuchte.innen",         start |-> 22, length |-> 1, div |-> 1,  format |-> ""],
    [name |-> "feuchte.aussen",        start |-> 24, length |-> 1, div |-> 1,  format |-> ""],
    [name |-> "druck.absolut",         start |-> 26, length |-> 2, div |-> 10, format |-> ">h"],
    [name |-> "druck.relativ",         start |-> 29, length |-> 2, div |-> 10, format |-> ">h"],
    [name |-> "wind.richtung",         start |-> 32, length |-> 2, div |-> 1,  format |-> ">h"],
    [name |-> "wind.geschwindigkeit",  start |-> 35, length |-> 2, div |-> 10, format |-> ">h"],
    [name |-> "wind.boee",             start |-> 38, length |-> 2, div |-> 10, format |-> ">h"],
    [name |-> "niederschlag.aktuell",  start |-> 41, length |-> 4, div |-> 10, format |-> ">I"],
    [name |-> "niederschlag.tag",      start |-> 46, length |-> 4, div |-> 10, format |-> ">I"],
    [name |-> "niederschlag.woche",    start |-> 51, length |-> 4, div |-> 10, format |-> ">I"],
    [name |-> "niederschlag.monat",    start |-> 56, length |-> 4, div |-> 10, format |-> ">I"],
    [name |-> "niederschlag.jahr",     start |-> 61, length |-> 4, div |-> 10, format |-> ">I"],
    [name |-> "niederschlag.gesamt",   start |-> 66, length |-> 4, div |-> 10, format |-> ">I"],
    [name |-> "licht.aktuell",         start |-> 71, length |-> 4, div |-> 10, format |-> ">I"],
    [name |-> "licht.uvWert",          start |-> 76, length |-> 4, div |-> 1,  format |-> ">h"],
    [name |-> "licht.uvIndex",         start |-> 79, length |-> 1, div |-> 1,  format |-> ""] >>

\* VALUES: name, start, length, div and format of every field of the frame.
VALUES == <<
    [name |-> "temperatur.innen",      start |-> 7,  length |-> 2, div |-> 10, format |-> ">h"],
    [name |-> "temperatur.aussen",     start |-> 10, length |-> 2, div |-> 10, format |-> ">h"],
    [name |-> "temperatur.taupunkt",   start |-> 13, length |-> 2, div |-> 10, format |-> ">h"],
    [name |-> "temperatur.gefuehlt",   start |-> 16, length |-> 2, div |-> 10, format |-> ">h"],
    [name |-> "temperatur.hitzeIndex", start |-> 19, length |-> 2, div |-> 10, format |-> ">h"],
    [name |-> "feuchte.innen",         start |-> 22, length |-> 1, div |-> 1,  format |-> ""],
    [name |-> "feuchte.aussen",        start |-> 24, length |-> 1, div |-> 1,  format |-> ""],
    [name |-> "druck.absolut",         start |-> 26, length |-> 2, div |-> 10, format |-> ">h"],
    [name |-> "druck.relativ",         start |-> 29, length |-> 2, div |-> 10, format |-> ">h"],
    [name |-> "wind.richtung",         start |-> 32, length |-> 2, div |-> 1,  format |-> ">h"],
    [name |-> "wind.geschwindigkeit",  start |-> 35, length |-> 2, div |-> 10, format |-> ">h"],
    [name |-> "wind.boee",             start |-> 38, length |-> 2, div |-> 10, format |-> ">h"],
    [name |-> "niederschlag.aktuell",  start |-> 41, length |-> 4, div |-> 10, format |-> ">I"],
    [name |-> "niederschlag.tag",      start |-> 46, length |-> 4, div |-> 10, format |-> ">I"],
    [name |-> "niederschlag.woche",    start |-> 51, length |-> 4, div |-> 10, format |-> ">I"],
    [name |-> "niederschlag.monat",    start |-> 56, length |-> 4, div |-> 10, format |-> ">I"],
    [name |-> "niederschlag.jahr",     start |-> 61, length |-> 4, div |-> 10, format |-> ">I"],
    [name |-> "niederschlag.gesamt",   start |-> 66, length |-> 4, div |-> 10, format |-> ">I"],
    [name |-> "licht.aktuell",         start |-> 71, length |-> 4, div |-> 10, format |-> ">I"],
    [name |-> "licht.uvWert",          start |-> 76, length |-> 2, div |-> 1,  format |-> ">h"],
    [name |-> "licht.uvIndex",         start |-> 79, length |-> 1, div |-> 1,  format |-> ""] >>

\* The bytes of s as one big-endian unsigned number.
RECURSIVE BigEndian(_)
BigEndian(s) ==
    IF s = <<>> THEN 0 ELSE BigEndian(SubSeq(s, 1, Len(s) - 1)) * 256 + s[Len(s)]

\* An unsigned 32-bit number hi * 65536 + lo, kept as its two 16-bit
\* halves so that no number of the model exceeds 2^31 - 1.
U32(hi, lo) == [hi |-> hi, lo |-> lo]

\* A struct.unpack that reads ">h" as an unsigned short.
StructUnpackUnsigned(fmt, bytes_value) ==
    IF fmt = ">h"
    THEN IF Len(bytes_value) # 2 THEN "struct.error" ELSE BigEndian(bytes_value)
    ELSE IF fmt = ">I"
    THEN IF Len(bytes_value) # 4 THEN "struct.error"
         ELSE U32(BigEndian(SubSeq(bytes_value, 1, 2)),
                  BigEndian(SubSeq(bytes_value, 3, 4)))
    ELSE "struct.error"

\* struct.unpack(fmt, bytes_value)[0]: ">h" a signed short, ">I" an
\* unsigned int; "struct.error" when the length does not fit the format.
StructUnpack(fmt, bytes_value) ==
    IF fmt = ">h"
    THEN IF Len(bytes_value) # 2 THEN "struct.error"
         ELSE LET u == BigEndian(bytes_value)
              IN  IF u >= 32768 THEN u - 65536 ELSE u
    ELSE IF fmt = ">I"
    THEN IF Len(bytes_value) # 4 THEN "struct.error"
         ELSE U32(BigEndian(SubSeq(bytes_value, 1, 2)),
                  BigEndian(SubSeq(bytes_value, 3, 4)))
    ELSE "struct.error"

\* bytes_to_float: the quotient raw / div, kept as the pair it is made of.
bytes_to_float(data, start, length, div, fmt) ==
    LET bytes_value == PySlice(data, start, start + length)
    IN  IF length = 1
        THEN [raw |-> BigEndian(bytes_value), div |-> div]
        ELSE [raw |-> StructUnpack(fmt, bytes_value), div |-> div]

\* A decode that leaves out the name prefix and the last field of the table.
format_data_unprefixed(data, current_time) ==
    [i \in 1..(Len(VALUES) - 1) |->
        <<VALUES[i].name,
          <<current_time,
            bytes_to_float(data, VALUES[i].start, VALUES[i].length,
                           VALUES[i].div, VALUES[i].format)>> >>]

\* A decode that reads the clock anew for every field.
format_data_clock_per_field(data, current_time) ==
    [i \in 1..Len(VALUES) |->
        <<GRAPHITE_METRIC \o VALUES[i].name,
          <<current_time + i,
            bytes_to_float(data, VALUES[i].start, VALUES[i].length,
                           VALUES[i].div, VALUES[i].format)>> >>]

\* format_data_for_graphite with the clock reading current_time.
format_data_for_graphite(data, current_time) ==
    [i \in 1..Len(VALUES) |->
        <<GRAPHITE_METRIC \o VALUES[i].name,
          <<current_time,
            bytes_to_float(data, VALUES[i].start, VALUES[i].length,
                           VALUES[i].div, VALUES[i].format)>> >>]

\* ------------------------------------------------------------------------
\* Environment: what the network can answer
\* ------------------------------------------------------------------------

\* Addresses a discovery reply can come from.
ReplyAddrs == {IP55, IP77, IP4}

\* Payloads of a discovery reply: with and without the station's name.
ReplyPayloads == {<<"EasyWeather-WIFIDB77">>, <<"EasyWeather-WIFI0000">>}

\* b'EasyWeather-WIFIDB77' in data
HasMarker(payload) == \E i \in 1..Len(payload) : payload[i] = "EasyWeather-WIFIDB77"

\* Readings of int(time.time()).
Times == {1700000000, 1700000060}

\* ------------------------------------------------------------------------
\* State
\* ------------------------------------------------------------------------

VARIABLES
    run,             \* which start of the script by the task scheduler this is
    pc,              \* where the main thread is
    timer,           \* EXIT_TIMER: "running" or "fired"
    file,            \* text of /volume1/docker/python/weather.py
    WEATHER_HOST,    \* the module global of the running script
    GRAPHITE_HOST,   \* the module global of the running script
    stationSock,     \* socket to the station: "none", "open", "closed" by
                     \* close(), "finalized" by the interpreter
    graphiteSock,    \* socket to the carbon receiver
    udpSock,         \* socket of discover_weather_station
    stationTarget,   \* address of the last create_connection to the station
    data,            \* local of request_data_from_weather_station
    weather_data,    \* what request_data_from_weather_station returned
    formatted_data,  \* what format_data_for_graphite returned
    success,         \* local of send_data_to_graphite
    server,          \* sender of the discovery reply
    reply,           \* data of the discovery reply, empty if there was none
    new_ip,          \* argument of update_weather_host_ip
    exc,             \* exception on its way up, "none" if there is none
    log,             \* messages logged in this run
    received,        \* messages the carbon receiver got in this run
    attempts,        \* calls of request_data_from_weather_station in this run
    discoveries,     \* calls of discover_weather_station in this run
    sendCalls,       \* calls of send_data_to_graphite in this run
    fetchOutcome,    \* how request_data_from_weather_station ended
    deliverOutcome   \* how send_data_to_graphite ended

vars == <<run, pc, timer, file, WEATHER_HOST, GRAPHITE_HOST, stationSock,
          graphiteSock, udpSock, stationTarget, data, weather_data,
          formatted_data, success, server, reply, new_ip, exc, log, received,
          attempts, discoveries, sendCalls, fetchOutcome, deliverOutcome>>

sockVars == <<stationSock, graphiteSock, udpSock>>
hostVars == <<file, WEATHER_HOST, GRAPHITE_HOST>>
discVars == <<server, reply, new_ip, discoveries>>
sendVars == <<formatted_data, success, received, sendCalls, deliverOutcome>>
fetchVars == <<stationTarget, data, weather_data, attempts, fetchOutcome>>

\* The state of a freshly started script whose source file reads f.
Started(f) ==
    /\ pc = "main"
    /\ timer = "running"
    /\ file = f
    /\ WEATHER_HOST = ModuleLiteral(f, "WEATHER_HOST='")
    /\ GRAPHITE_HOST = ModuleLiteral(f, "GRAPHITE_HOST='")
    /\ stationSock = "none"
    /\ graphiteSock = "none"
    /\ udpSock = "none"
    /\ stationTarget = <<>>
    /\ data = PyInt0
    /\ weather_data = PyInt0
    /\ formatted_data = <<>>
    /\ success = FALSE
    /\ server = <<>>
    /\ reply = <<>>
    /\ new_ip = <<>>
    /\ exc = "none"
    /\ log = <<>>
    /\ received = <<>>
    /\ attempts = 0
    /\ discoveries = 0
    /\ sendCalls = 0
    /\ fetchOutcome = "none"
    /\ deliverOutcome = "none"

Init ==
    /\ run = 1
    /\ Started(SourceFile(GRAPHITE_HOST_INIT, WEATHER_HOST_INIT))

\* ------------------------------------------------------------------------
\* The main thread
\* ------------------------------------------------------------------------

Logged(msg) == log' = Append(log, msg)

\* __main__: init_logger, then the call of request_data_from_weather_station.
MainStart ==
    /\ pc = "main"
    /\ pc' = "req_connect"
    /\ attempts' = attempts + 1
    /\ UNCHANGED <<run, timer, hostVars, sockVars, stationTarget, data,
                   weather_data, fetchOutcome, sendVars, discVars, exc, log>>

\* request_data_from_weather_station, the first try block: create_connection
\* and setsockopt.  Either can raise; the handler is entered with the
\* socket as it is.
ReqConnect ==
    /\ pc = "req_connect"
    /\ stationTarget' = WEATHER_HOST
    /\ \/ /\ stationSock' = "open"        \* connected, option set
          /\ pc' = "req_send"
       \/ /\ stationSock' = stationSock   \* create_connection raised
          /\ pc' = "req_except"
       \/ /\ stationSock' = "open"        \* connected, setsockopt raised
          /\ pc' = "req_except"
    /\ UNCHANGED <<run, timer, hostVars, graphiteSock, udpSock, data,
                   weather_data, attempts, fetchOutcome, sendVars, discVars,
                   exc, log>>

\* The except clause: log, then call discover_weather_station.
ReqExcept ==
    /\ pc = "req_except"
    /\ Logged("Error connecting to weather station!")
    /\ discoveries' = discoveries + 1
    /\ pc' = "disc_socket"
    /\ UNCHANGED <<run, timer, hostVars, sockVars, fetchVars, sendVars,
                   server, reply, new_ip, exc>>

\* discover_weather_station: the socket and its options, before the try.
\* socket(), settimeout(2) and setsockopt(SO_BROADCAST) on the fresh
\* datagram socket are taken to succeed.
DiscSocket ==
    /\ pc = "disc_socket"
    /\ udpSock' = "open"
    /\ pc' = "disc_sendto"
    /\ UNCHANGED <<run, timer, hostVars, stationSock, graphiteSock, fetchVars,
                   sendVars, discVars, exc, log>>

\* sendto of the broadcast command.
DiscSendto ==
    /\ pc = "disc_sendto"
    /\ \/ /\ pc' = "disc_recvfrom"
          /\ exc' = exc
       \/ /\ pc' = "disc_finally"         \* sendto raised
          /\ exc' = "OSError"
    /\ UNCHANGED <<run, timer, hostVars, sockVars, fetchVars, sendVars,
                   discVars, log>>

\* A recvfrom that takes every reply for the station's.
DiscRecvfromAnyReply ==
    /\ pc = "disc_recvfrom"
    /\ \/ /\ pc' = "disc_finally"
          /\ UNCHANGED <<server, reply, new_ip>>
       \/ \E payload \in ReplyPayloads, addr \in ReplyAddrs :
            /\ server' = addr
            /\ reply' = payload
            /\ new_ip' = addr
            /\ pc' = "upd_check"
    /\ UNCHANGED <<run, timer, hostVars, sockVars, fetchVars, sendVars,
                   discoveries, exc, log>>

\* recvfrom: a timeout is passed over; a reply that holds the station's
\* name calls update_weather_host_ip with the sender's address.
DiscRecvfrom ==
    /\ pc = "disc_recvfrom"
    /\ \/ /\ pc' = "disc_finally"         \* recvfrom raised (timeout)
          /\ UNCHANGED <<server, reply, new_ip>>
       \/ \E payload \in ReplyPayloads, addr \in ReplyAddrs :
            /\ server' = addr
            /\ reply' = payload
            /\ IF HasMarker(payload)
               THEN new_ip' = addr /\ pc' = "upd_check"
               ELSE new_ip' = new_ip /\ pc' = "disc_finally"
    /\ UNCHANGED <<run, timer, hostVars, sockVars, fetchVars, sendVars,
                   discoveries, exc, log>>

\* update_weather_host_ip as a whole, when open does not raise: the module
\* global and the file after the call, and whether the file was written.
update_weather_host_ip(host, contents, ip) ==
    IF ip = host
    THEN [WEATHER_HOST |-> host, file |-> contents, wrote |-> FALSE]
    ELSE [WEATHER_HOST |-> host,
          file |-> PyReplaceFirst(contents, host, ip),
          wrote |-> TRUE]

\* update_weather_host_ip: nothing to do for the address already in use.
UpdCheck ==
    /\ pc = "upd_check"
    /\ IF new_ip = WEATHER_HOST
       THEN pc' = "disc_finally" /\ log' = log
       ELSE pc' = "upd_rewrite" /\ Logged("Updating Weather Station IP")
    /\ UNCHANGED <<run, timer, hostVars, sockVars, fetchVars, sendVars,
                   discVars, exc>>

\* update_weather_host_ip: read the file, replace the first occurrence of
\* the address in use by the new one, write the file.  open can raise.
\* WEATHER_HOST is only read here.
UpdRewrite ==
    /\ pc = "upd_rewrite"
    /\ pc' = "disc_finally"
    /\ \/ /\ file' = update_weather_host_ip(WEATHER_HOST, file, new_ip).file
          /\ exc' = exc
       \/ /\ file' = file                 \* open raised
          /\ exc' = "OSError"
    /\ UNCHANGED <<run, timer, WEATHER_HOST, GRAPHITE_HOST, sockVars,
                   fetchVars, sendVars, discVars, log>>

\* The finally clause of discover_weather_station; an exception goes on up,
\* through the except clause it was called from.
DiscFinally ==
    /\ pc = "disc_finally"
    /\ udpSock' = "closed"
    /\ pc' = IF exc = "none" THEN "req_return0" ELSE "req_raise"
    /\ UNCHANGED <<run, timer, hostVars, stationSock, graphiteSock, fetchVars,
                   sendVars, discVars, exc, log>>

\* return 0 after discovery.
ReqReturn0 ==
    /\ pc = "req_return0"
    /\ weather_data' = PyInt0
    /\ fetchOutcome' = "zero"
    /\ pc' = "main_check"
    /\ UNCHANGED <<run, timer, hostVars, sockVars, stationTarget, data,
                   attempts, sendVars, discVars, exc, log>>

\* An exception leaves request_data_from_weather_station.
ReqRaise ==
    /\ pc = "req_raise"
    /\ fetchOutcome' = "raised"
    /\ pc' = "main_except"
    /\ UNCHANGED <<run, timer, hostVars, sockVars, stationTarget, data,
                   weather_data, attempts, sendVars, discVars, exc, log>>

\* data = 0, then send of CMD_ACT inside the second try block.
ReqSend ==
    /\ pc = "req_send"
    /\ data' = PyInt0
    /\ \/ /\ pc' = "req_recv"
          /\ log' = log
       \/ /\ pc' = "req_finally"          \* send raised
          /\ Logged("Error getting data from weather station!")
    /\ UNCHANGED <<run, timer, hostVars, sockVars, stationTarget,
                   weather_data, attempts, fetchOutcome, sendVars, discVars,
                   exc>>

\* recv(1024): some bytes, or an exception (timeout) that leaves data at 0.
ReqRecv ==
    /\ pc = "req_recv"
    /\ pc' = "req_finally"
    /\ \/ /\ \E f \in RecvFrames : data' = PyBytes(f)
          /\ log' = log
       \/ /\ data' = data                 \* recv raised
          /\ Logged("Error getting data from weather station!")
    /\ UNCHANGED <<run, timer, hostVars, sockVars, stationTarget,
                   weather_data, attempts, fetchOutcome, sendVars, discVars,
                   exc>>

\* The finally clause: sock.close().
ReqFinally ==
    /\ pc = "req_finally"
    /\ stationSock' = "closed"
    /\ pc' = "req_crc"
    /\ UNCHANGED <<run, timer, hostVars, graphiteSock, udpSock, fetchVars,
                   sendVars, discVars, exc, log>>

\* A fetch that treats a checksum failure like a connect failure.
ReqCrcRediscover ==
    /\ pc = "req_crc"
    /\ LET r == check_crc(data)
       IN  \/ /\ r = "True"
              /\ weather_data' = data
              /\ fetchOutcome' = "frame"
              /\ pc' = "main_check"
              /\ UNCHANGED <<exc, log>>
           \/ /\ r = "False"
              /\ pc' = "req_except"
              /\ Logged("CRC failed!")
              /\ UNCHANGED <<weather_data, fetchOutcome, exc>>
           \/ /\ r = "IndexError"
              /\ exc' = "IndexError"
              /\ pc' = "req_raise"
              /\ UNCHANGED <<weather_data, fetchOutcome, log>>
    /\ UNCHANGED <<run, timer, hostVars, sockVars, stationTarget, data,
                   attempts, sendVars, discVars>>

\* if check_crc(data): return data; otherwise log and return 0.  An
\* IndexError of check_crc is not handled here.
ReqCrc ==
    /\ pc = "req_crc"
    /\ LET r == check_crc(data)
       IN  \/ /\ r = "True"
              /\ weather_data' = data
              /\ fetchOutcome' = "frame"
              /\ pc' = "main_check"
              /\ UNCHANGED <<exc, log>>
           \/ /\ r = "False"
              /\ weather_data' = PyInt0
              /\ fetchOutcome' = "zero"
              /\ pc' = "main_check"
              /\ Logged("CRC failed!")
              /\ exc' = exc
           \/ /\ r = "IndexError"
              /\ exc' = "IndexError"
              /\ pc' = "req_raise"
              /\ UNCHANGED <<weather_data, fetchOutcome, log>>
    /\ UNCHANGED <<run, timer, hostVars, sockVars, stationTarget, data,
                   attempts, sendVars, discVars>>

\* A main block that formats and sends whatever the fetch returned.
MainCheckAlways ==
    /\ pc = "main_check"
    /\ pc' = "main_format"
    /\ UNCHANGED <<run, timer, hostVars, sockVars, fetchVars, sendVars,
                   discVars, exc, log>>

\* A main block that goes round again after a failed fetch.
MainCheckLoop ==
    /\ pc = "main_check"
    /\ pc' = IF weather_data # PyInt0 THEN "main_format" ELSE "main"
    /\ UNCHANGED <<run, timer, hostVars, sockVars, fetchVars, sendVars,
                   discVars, exc, log>>

\* if weather_data != 0: format and send; otherwise the try block is over.
MainCheck ==
    /\ pc = "main_check"
    /\ pc' = IF weather_data # PyInt0 THEN "main_format" ELSE "done"
    /\ UNCHANGED <<run, timer, hostVars, sockVars, fetchVars, sendVars,
                   discVars, exc, log>>

\* formatted_data = format_data_for_graphite(weather_data)
MainFormat ==
    /\ pc = "main_format"
    /\ \E t \in Times :
         formatted_data' = format_data_for_graphite(weather_data.bytes, t)
    /\ pc' = "snd_connect"
    /\ UNCHANGED <<run, timer, hostVars, sockVars, fetchVars, success,
                   received, sendCalls, deliverOutcome, discVars, exc, log>>

\* pickle.dumps(list_of_metric_tuples, protocol=2) with its length header:
\* the receiver unpickles the same list.
Message(list_of_metric_tuples) ==
    [header |-> "!L", payload |-> list_of_metric_tuples]

\* send_data_to_graphite up to the try block: create_connection and
\* setsockopt, neither inside a try.
SndConnect ==
    /\ pc = "snd_connect"
    /\ sendCalls' = sendCalls + 1
    /\ success' = FALSE
    /\ \/ /\ graphiteSock' = "open"       \* connected, option set
          /\ pc' = "snd_sendall"
          /\ exc' = exc
       \/ /\ graphiteSock' = graphiteSock \* create_connection raised
          /\ pc' = "snd_raise"
          /\ exc' = "OSError"
       \/ /\ graphiteSock' = "open"       \* connected, setsockopt raised
          /\ pc' = "snd_raise"
          /\ exc' = "OSError"
    /\ UNCHANGED <<run, timer, hostVars, stationSock, udpSock, fetchVars,
                   formatted_data, received, deliverOutcome, discVars, log>>

\* sendall(message) inside the try block.
SndSendall ==
    /\ pc = "snd_sendall"
    /\ pc' = "snd_finally"
    /\ \/ /\ received' = Append(received, Message(formatted_data))
          /\ success' = TRUE
          /\ log' = log
       \/ /\ received' = received         \* sendall raised
          /\ success' = success
          /\ Logged("Error sending data!")
    /\ UNCHANGED <<run, timer, hostVars, sockVars, fetchVars, formatted_data,
                   sendCalls, deliverOutcome, discVars, exc>>

\* The finally clause and return success.
SndFinally ==
    /\ pc = "snd_finally"
    /\ graphiteSock' = "closed"
    /\ deliverOutcome' = IF success THEN "True" ELSE "False"
    /\ pc' = "main_result"
    /\ UNCHANGED <<run, timer, hostVars, stationSock, udpSock, fetchVars,
                   formatted_data, success, received, sendCalls, discVars,
                   exc, log>>

\* An exception leaves send_data_to_graphite.
SndRaise ==
    /\ pc = "snd_raise"
    /\ deliverOutcome' = "raised"
    /\ pc' = "main_except"
    /\ UNCHANGED <<run, timer, hostVars, sockVars, fetchVars, formatted_data,
                   success, received, sendCalls, discVars, exc, log>>

\* if result is False: log.  The try block is over.
MainResult ==
    /\ pc = "main_result"
    /\ IF deliverOutcome = "False"
       THEN Logged("Error sending data to graphite.")
       ELSE log' = log
    /\ pc' = "done"
    /\ UNCHANGED <<run, timer, hostVars, sockVars, fetchVars, sendVars,
                   discVars, exc>>

\* A main block without the except clause: the exception ends the script
\* unlogged.
MainExceptEscape ==
    /\ pc = "main_except"
    /\ pc' = "done"
    /\ UNCHANGED <<run, timer, hostVars, sockVars, fetchVars, sendVars,
                   discVars, exc, log>>

\* The bare except of __main__: log, and the script is over.
MainExcept ==
    /\ pc = "main_except"
    /\ Logged("Unexpected error!")
    /\ exc' = "none"
    /\ pc' = "done"
    /\ UNCHANGED <<run, timer, hostVars, sockVars, fetchVars, sendVars,
                   discVars>>

\* ------------------------------------------------------------------------
\* The timer thread and the task scheduler
\* ------------------------------------------------------------------------

\* EXIT_TIMER fires: sys.exit raises SystemExit in the timer thread, which
\* ends that thread.  The main thread is not touched.
TimerFire ==
    /\ timer = "running"
    /\ timer' = "fired"
    /\ UNCHANGED <<run, pc, hostVars, sockVars, fetchVars, sendVars, discVars,
                   exc, log>>

\* A socket object that was never closed and whose function is over is no
\* longer referenced.  The interpreter may finalize it, which releases the
\* connection, at any time from then on or not at all.
Finalize ==
    /\ \/ /\ stationSock = "open"
          /\ fetchOutcome # "none"
          /\ stationSock' = "finalized"
          /\ graphiteSock' = graphiteSock
       \/ /\ graphiteSock = "open"
          /\ deliverOutcome # "none"
          /\ graphiteSock' = "finalized"
          /\ stationSock' = stationSock
    /\ UNCHANGED <<run, pc, timer, hostVars, udpSock, fetchVars, sendVars,
                   discVars, exc, log>>

\* Both threads are over: the process is gone.
ProcessEnded == pc = "done" /\ timer = "fired"

\* The task scheduler starts the script again: the module is read from the
\* file as it is now.
Restart ==
    /\ ProcessEnded
    /\ run < MaxRuns
    /\ run' = run + 1
    /\ pc' = "main"
    /\ timer' = "running"
    /\ file' = file
    /\ WEATHER_HOST' = ModuleLiteral(file, "WEATHER_HOST='")
    /\ GRAPHITE_HOST' = ModuleLiteral(file, "GRAPHITE_HOST='")
    /\ stationSock' = "none"
    /\ graphiteSock' = "none"
    /\ udpSock' = "none"
    /\ stationTarget' = <<>>
    /\ data' = PyInt0
    /\ weather_data' = PyInt0
    /\ formatted_data' = <<>>
    /\ success' = FALSE
    /\ server' = <<>>
    /\ reply' = <<>>
    /\ new_ip' = <<>>
    /\ exc' = "none"
    /\ log' = <<>>
    /\ received' = <<>>
    /\ attempts' = 0
    /\ discoveries' = 0
    /\ sendCalls' = 0
    /\ fetchOutcome' = "none"
    /\ deliverOutcome' = "none"

Next ==
    \/ MainStart
    \/ ReqConnect
    \/ ReqExcept
    \/ DiscSocket
    \/ DiscSendto
    \/ DiscRecvfrom
    \/ UpdCheck
    \/ UpdRewrite
    \/ DiscFinally
    \/ ReqReturn0
    \/ ReqRaise
    \/ ReqSend
    \/ ReqRecv
    \/ ReqFinally
    \/ ReqCrc
    \/ MainCheck
    \/ MainFormat
    \/ SndConnect
    \/ SndSendall
    \/ SndFinally
    \/ SndRaise
    \/ MainResult
    \/ MainExcept
    \/ Finalize
    \/ TimerFire
    \/ Restart

Spec == Init /\ [][Next]_vars

\* ------------------------------------------------------------------------
\* Properties
\* ------------------------------------------------------------------------

\* The log of this run holds msg.
HasLogged(msg) == \E i \in 1..Len(log) : log[i] = msg

\* update_weather_host_ip ran past its early return and wrote the file.
EndpointRewritten ==
    /\ pc = "disc_finally"
    /\ exc = "none"
    /\ HasLogged("Updating Weather Station IP")

\* The checksum of a frame, by offsets: the bytes at 2..80 added up, the
\* low eight bits of the sum.
RECURSIVE SumFromTo(_, _, _)
SumFromTo(f, lo, hi) == IF lo > hi THEN 0 ELSE At(f, lo) + SumFromTo(f, lo + 1, hi)

ChecksumOk(f) == Len(f) >= 82 /\ At(f, 81) = SumFromTo(f, 2, 80) % 256

\* C1: within one cycle up to MAX_RETRIES attempts are made, each a fetch,
\* a decode and a delivery, and the attempts stop as soon as a delivery
\* succeeds: a cycle that is over without a successful delivery has made
\* MAX_RETRIES attempts (and one whose station connect failed once still
\* delivers by a later attempt).
C1_RetriesUntilDelivered ==
    pc = "done" => (deliverOutcome = "True" \/ attempts = MAX_RETRIES)

\* C2, as claimed: the poll loop has no terminal state; after a cycle that
\* failed the process is still there and goes on to the next cycle.
C2_NoTerminalState == ~ProcessEnded

\* C2, amended: a cycle has a terminal state.  Once the main block of a run
\* is over nothing more runs in that process, whether its attempt failed or
\* not, and a fresh cycle begins only as a new process, started by the task
\* scheduler after the old one has ended.
C2_FreshCycleOnlyByRestart ==
    [][ /\ (pc' = "main" /\ pc # "main") => (ProcessEnded /\ run' = run + 1)
        /\ (pc = "done" /\ pc' # "done") => (ProcessEnded /\ pc' = "main") ]_vars

\* C2 witness: a second run whose fetch failed has ended.
C2_Witness == run = 2 /\ ProcessEnded /\ fetchOutcome = "zero"

\* C3: check_crc is true of every frame whose byte 81 is the sum of the
\* bytes 2..80 modulo 256, and false of every frame that is such a frame
\* with one bit of byte 81 inverted.
C3_CrcAcceptsValidRejectsFlipped ==
    (pc = "req_crc" /\ data # PyInt0 /\ Len(data.bytes) >= 82) =>
        /\ ChecksumOk(data.bytes) => check_crc(data) = "True"
        /\ \A k \in Bits :
             ChecksumOk(FlipFrameBit(data.bytes, 81, k)) => check_crc(data) = "False"

\* C3 witness: check_crc is about to run on a frame of 255s whose checksum
\* byte has its top bit inverted.
C3_Witness ==
    /\ pc = "req_crc"
    /\ data # PyInt0
    /\ Len(data.bytes) = 82
    /\ At(data.bytes, 80) = 255
    /\ ChecksumOk(FlipFrameBit(data.bytes, 81, 7))

\* C4: check_crc returns false, and does not raise, for the failure value 0
\* and for every frame that is empty or shorter than 82 bytes.
C4_ShortFrameIsFalse ==
    (pc = "req_crc" /\ (data = PyInt0 \/ Len(data.bytes) < 82)) =>
        check_crc(data) = "False"

\* C5: once the connection stands, request_data_from_weather_station ends
\* by returning: 0 when send or recv failed or the frame fails the
\* checksum, the frame only when it passes; it never ends by raising.
C5_FetchReturnsFrameOrZero ==
    (stationSock = "closed" /\ fetchOutcome # "none") =>
        /\ fetchOutcome \in {"frame", "zero"}
        /\ fetchOutcome = "frame" <=> ChecksumOk(data.bytes)
        /\ fetchOutcome = "frame" => weather_data = data
        /\ fetchOutcome = "zero" => weather_data = PyInt0

\* C6: after a failed connect and the discovery it calls,
\* request_data_from_weather_station returns 0 whatever discovery did.
C6_ConnectFailureReturnsZero ==
    (discoveries > 0 /\ udpSock = "closed" /\ fetchOutcome # "none") =>
        fetchOutcome = "zero"

\* C7: when request_data_from_weather_station is over, by return or by
\* exception, its socket to the station is not open.
C7_StationSocketClosedAtExit ==
    fetchOutcome # "none" => stationSock # "open"

\* C8: send_data_to_graphite ends by returning True or False, never by an
\* exception, after at most one connect and one write, and with no socket
\* to the carbon receiver left open.
C8_DeliverReturnsBool ==
    deliverOutcome # "none" =>
        /\ deliverOutcome \in {"True", "False"}
        /\ graphiteSock # "open"
        /\ sendCalls = 1
        /\ Len(received) <= 1

\* C9: when discovery got a matching reply from an address other than the
\* one in use and the update went through, WEATHER_HOST of the running
\* script is the new address, so that the next connect goes there.
C9_GlobalFollowsDiscovery ==
    EndpointRewritten => WEATHER_HOST = new_ip

\* C10: right after an update of the endpoint went through, the address
\* the file holds for WEATHER_HOST is the one just discovered.
C10_FileHoldsDiscoveredAddress ==
    EndpointRewritten => ModuleLiteral(file, "WEATHER_HOST='") = new_ip

\* C11: in a run whose discovery timed out or got a reply without the
\* station's name, no step changes WEATHER_HOST or the file; the script
\* started next has the same WEATHER_HOST, and a connect to the station
\* targets WEATHER_HOST.
C11_NoMatchLeavesEndpoint ==
    [][ /\ (run' = run /\ ~HasMarker(reply')) =>
              (file' = file /\ WEATHER_HOST' = WEATHER_HOST)
        /\ (run' # run /\ ~HasMarker(reply)) =>
              (file' = file /\ WEATHER_HOST' = WEATHER_HOST)
        /\ (pc = "req_connect" /\ pc' # pc) => stationTarget' = WEATHER_HOST ]_vars

\* C11 witness: the discovery of a second run got a reply without the name
\* from an address other than the one in use.
C11_Witness ==
    /\ pc = "disc_finally"
    /\ reply # <<>>
    /\ ~HasMarker(reply)
    /\ server # WEATHER_HOST
    /\ run = 2

\* C12: update_weather_host_ip is idempotent: called a second time with
\* the same address it leaves WEATHER_HOST and the file as the first call
\* left them, and called with the address in use it writes nothing.
C12_UpdateIdempotent ==
    pc = "upd_check" =>
        LET once  == update_weather_host_ip(WEATHER_HOST, file, new_ip)
            twice == update_weather_host_ip(once.WEATHER_HOST, once.file, new_ip)
        IN  /\ twice.WEATHER_HOST = once.WEATHER_HOST
            /\ twice.file = once.file
            /\ new_ip = WEATHER_HOST => ~once.wrote

\* C13: an exception raised in the fetch, the discovery, the rewrite of
\* the file or the delivery is on its way only inside the try block of
\* __main__; when the main block is over none is pending, and a run in
\* which one was raised has logged it as an unexpected error.
C13_FailuresCaughtAndLogged ==
    /\ exc # "none" => pc \in {"disc_finally", "req_raise", "snd_raise", "main_except"}
    /\ pc = "done" => exc = "none"
    /\ (pc = "done" /\ (fetchOutcome = "raised" \/ deliverOutcome = "raised")) =>
          HasLogged("Unexpected error!")

\* C13 witness: a run whose fetch raised is over, the error logged.
C13_Witness ==
    /\ pc = "done"
    /\ fetchOutcome = "raised"
    /\ HasLogged("Unexpected error!")

\* C14: when EXIT_TIMER has fired the process is over, the main thread
\* included: the main thread takes no further step in that run.
C14_WatchdogEndsProcess ==
    [][(timer = "fired" /\ run' = run) => pc' = pc]_vars

\* The number a field of the schema stands for, by its width: one byte
\* unsigned, two bytes big-endian signed, four bytes big-endian unsigned.
RefRaw(f, v) ==
    IF v.length = 1 THEN At(f, v.start)
    ELSE IF v.length = 2
    THEN LET u == At(f, v.start) * 256 + At(f, v.start + 1)
         IN  IF u < 32768 THEN u ELSE u - 65536
    ELSE U32(At(f, v.start) * 256 + At(f, v.start + 1),
             At(f, v.start + 2) * 256 + At(f, v.start + 3))

\* C15: every field of VALUES is decoded by its width, a 1-byte field as
\* an unsigned number, a 2-byte field as a big-endian signed 16-bit number,
\* a 4-byte field as a big-endian unsigned 32-bit number, and the value is
\* that number over the field's divisor.
C15_DecodeByWidth ==
    formatted_data # <<>> =>
        \A i \in 1..Len(VALUES) :
            formatted_data[i][2][2] =
                [raw |-> RefRaw(weather_data.bytes, VALUES[i]), div |-> VALUES[i].div]

\* C15 witness: a frame of 255s is decoded: 0xFFFF reads -1, the 1-byte
\* field 255 and the 4-byte field has both halves 0xFFFF.
C15_Witness ==
    /\ formatted_data # <<>>
    /\ formatted_data[1][2][2].raw = -1
    /\ formatted_data[6][2][2].raw = 255
    /\ formatted_data[13][2][2].raw = U32(65535, 65535)

\* C16: a decoded batch holds exactly one reading per field of VALUES, in
\* the order of VALUES, each named GRAPHITE_METRIC followed by the field's
\* name, all with the same timestamp; and every message handed to the
\* collector carries that batch, in that order.
C16_BatchFollowsSchema ==
    formatted_data # <<>> =>
        /\ Len(formatted_data) = Len(VALUES)
        /\ \A i \in 1..Len(VALUES) :
              /\ formatted_data[i][1] = GRAPHITE_METRIC \o VALUES[i].name
              /\ formatted_data[i][2][1] = formatted_data[1][2][1]
        /\ \A j \in 1..Len(received) : received[j].payload = formatted_data

\* C16 witness: the collector has received a message with one reading per
\* field.
C16_Witness ==
    /\ received # <<>>
    /\ Len(received[1].payload) = Len(VALUES)
    /\ deliverOutcome = "True"

\* C17, as claimed: the batch is determined by what is passed to the decode
\* call, and the clock is not read inside it: whatever the clock reads, the
\* batch decoded from the frame is the same.
C17_ClockNotReadInside ==
    formatted_data # <<>> =>
        \A t \in Times :
            formatted_data = format_data_for_graphite(weather_data.bytes, t)

\* The batch that frame f and the one clock reading t determine.
RefBatch(f, t) ==
    [i \in 1..Len(VALUES) |->
        <<GRAPHITE_METRIC \o VALUES[i].name,
          <<t, [raw |-> RefRaw(f, VALUES[i]), div |-> VALUES[i].div]>> >>]

\* C17, amended: decoding takes the frame alone and reads the clock itself,
\* once; the batch is determined by the frame and that one clock reading
\* (equal frames decoded at equal clock readings give equal batches).
C17_BatchDeterminedByFrameAndClock ==
    formatted_data # <<>> =>
        \E t \in Times : formatted_data = RefBatch(weather_data.bytes, t)

\* C17 witness: a batch stamped with one reading of the clock while the
\* clock could have read otherwise.
C17_Witness ==
    /\ pc = "snd_connect"
    /\ formatted_data # <<>>
    /\ \E t \in Times : t > formatted_data[Len(VALUES)][2][1]

\* Fields v and w of the table share a byte of the frame.
Overlap(v, w) ==
    /\ v.start < w.start + w.length
    /\ w.start < v.start + v.length

\* C18: whenever a frame is decoded, every field of VALUES is 1, 2 or 4
\* bytes long, lies between the two-byte frame header and the checksum byte
\* at CrcIndex (so all its bytes are bytes of the frame), has the format of
\* its length ('' for 1, '>h' for 2, '>I' for 4), and no two fields share a
\* byte.
C18_SchemaWellFormed ==
    formatted_data # <<>> =>
        /\ \A i \in 1..Len(VALUES) :
              LET v == VALUES[i]
              IN  /\ v.length \in {1, 2, 4}
                  /\ v.start >= 2
                  /\ v.start + v.length <= CrcIndex
                  /\ Len(PySlice(weather_data.bytes, v.start,
                                 v.start + v.length)) = v.length
                  /\ v.format = (CASE v.length = 1 -> ""
                                   [] v.length = 2 -> ">h"
                                   [] OTHER        -> ">I")
        /\ \A i \in 1..Len(VALUES) : \A j \in 1..Len(VALUES) :
              i # j => ~Overlap(VALUES[i], VALUES[j])

\* C18 witness: a frame has been decoded with the table, every field read
\* from bytes of the frame the checksum covers.
C18_Witness ==
    /\ pc = "main_result"
    /\ Len(formatted_data) = Len(VALUES)
    /\ \A i \in 1..Len(VALUES) : formatted_data[i][2][2].div = VALUES[i].div

\* C19: metrics are handed to the collector only after a fetch that
\* returned a frame with a valid checksum, and they are decoded from that
\* frame; in a run whose fetch failed (returned 0 or raised) nothing is
\* formatted, no connection to the collector is made and nothing is sent.
C19_SendOnlyAfterValidFetch ==
    /\ (sendCalls > 0 \/ received # <<>> \/ graphiteSock # "none") =>
          /\ fetchOutcome = "frame"
          /\ weather_data.kind = "bytes"
          /\ ChecksumOk(weather_data.bytes)
          /\ \A j \in 1..Len(received) :
                \A i \in 1..Len(VALUES) :
                    received[j].payload[i][2][2].raw =
                        RefRaw(weather_data.bytes, VALUES[i])
    /\ fetchOutcome \in {"zero", "raised"} =>
          /\ formatted_data = <<>>
          /\ sendCalls = 0
          /\ received = <<>>
          /\ graphiteSock = "none"

\* C19 witness: in a later run of the script a frame was fetched and its
\* batch has reached the collector.
C19_Witness ==
    /\ run > 1
    /\ sendCalls = 1
    /\ Len(received) = 1
    /\ fetchOutcome = "frame"

\* Where the main thread is inside the try block of discover_weather_station
\* or in what it calls.
DiscoveryPcs ==
    {"disc_sendto", "disc_recvfrom", "upd_check", "upd_rewrite", "disc_finally"}

\* Where the main thread is once the connection to the station is made: the
\* exchange and the checksum test.
ExchangePcs == {"req_send", "req_recv", "req_finally", "req_crc"}

====
